---- MODULE Spec2Model ----
(***************************************************************************)
(* Model of the OmniSorter sizing/selection calculator                     *)
(* (calculate_omnisorter_spec in app.py, get_container_model_config in     *)
(* src/omnisorter_common.py).                                              *)
(*                                                                         *)
(* Numbers.  The code computes with Python floats; the model computes the  *)
(* same quantities exactly, with integers:                                 *)
(*   - pieces_per_order, peak_ratio and product_weight are entered with    *)
(*     one decimal; they are carried in tenths (ppo10, peak10, weight10);  *)
(*   - a ratio (pieces per hour, utilization, rotation) is a pair          *)
(*     [num, den] and is compared by cross-multiplication;                 *)
(*   - np.ceil(a / b) is CeilDiv(a, b);                                    *)
(*   - the score, whose ports_penalty is 0.1, is carried in tenths.        *)
(* Container types: "tote" is the standard tote, "oricon50" the 50 L       *)
(* folding container, "other" the form's last choice, which no matrix      *)
(* lists.                                                                  *)
(***************************************************************************)
EXTENDS Integers, Sequences, FiniteSets, TLC

VARIABLES params, PRODUCT_SPECS, CONTAINER_MODEL_MATRIX, APP_SETTINGS,
          pc, idx, selected_model, best_score, best_calculation,
          loc, debug_info, alternatives, result, session_debug_info,
          last_result, last_params, calculation_attempted, calls,
          rendered, inquiry,
          env, got_specs, got_matrix, session_matrix, import_result, imports

vars == <<params, PRODUCT_SPECS, CONTAINER_MODEL_MATRIX, APP_SETTINGS,
          pc, idx, selected_model, best_score, best_calculation,
          loc, debug_info, alternatives, result, session_debug_info,
          last_result, last_params, calculation_attempted, calls,
          rendered, inquiry,
          env, got_specs, got_matrix, session_matrix, import_result, imports>>

inputs == <<params, PRODUCT_SPECS, CONTAINER_MODEL_MATRIX, APP_SETTINGS>>

\* what the last run of main() displayed and handed to the contact form
page == <<rendered, inquiry>>

\* the configuration files' environment, what the two getters returned, and
\* the matrix kept in the session with the outcome of the last import
config == <<env, got_specs, got_matrix, session_matrix, import_result, imports>>

\* what main() keeps in the session between reruns, and the number of times
\* the calculate button was pressed
ui == <<last_result, last_params, calculation_attempted, calls>>

----------------------------------------------------------------------------
(* Bounds of the model *)

\* longest catalog whose models are taken in every order
MaxPermLen == 2

\* presses of the calculate button in one session
MaxCalls == 3

\* documents imported in one session
MaxImports == 2

----------------------------------------------------------------------------
(* Settings: the defaults the code falls back to *)

TARGET_UTILIZATION_PCT == 95
TargetRotationSetting == 5
MAX_UNITS == 2
AltCap == 3

PriorityS == 100
PriorityM == 50
PriorityL == 25
PriorityMiniSmall == 150
PriorityMiniLarge == 10
MiniThresholdPcs == 3000
ContainerRecommendedBonus == 20
OptimalMin == 60
OptimalMax == 85
HighMax == 95
OptimalBonus == 15
HighBonus == 10
OverloadPenalty == -10
UnitsPenalty == 30
PortsPenalty10 == 1
PortsBaseline == 40

NegInf == -1000000

----------------------------------------------------------------------------
(* Arithmetic helpers *)

Max(a, b) == IF a >= b THEN a ELSE b

Min(a, b) == IF a <= b THEN a ELSE b

\* variant: the quotient truncated instead of rounded up
CeilDiv_Truncating(a, b) == a \div b

\* np.ceil(a / b) for a >= 0, b > 0
CeilDiv(a, b) == IF a % b = 0 THEN a \div b ELSE (a \div b) + 1

\* APP_SETTINGS['calculation'] when the settings file sets nothing
DefaultSettings ==
  [target_utilization_pct |-> TARGET_UTILIZATION_PCT,
   target_rotation |-> TargetRotationSetting]

\* calc_settings.get('target_utilization', 0.95), in percent
TARGET_UTILIZATION == APP_SETTINGS.target_utilization_pct

\* variant: a target rotation below 1 replaced by the default, not by 1
TARGET_ROTATION_DefaultBelowOne ==
  IF APP_SETTINGS.target_rotation < 1
    THEN TargetRotationSetting
    ELSE APP_SETTINGS.target_rotation

\* max(1, calc_settings.get('target_rotation', 5))
TARGET_ROTATION == Max(1, APP_SETTINGS.target_rotation)

----------------------------------------------------------------------------
(* The catalog store: model specifications *)

ModelIds == {"mini-cart", "mini-fixed", "S", "M", "L"}

DefaultOrder == <<"mini-cart", "mini-fixed", "S", "M", "L">>

ContainerTypes == {"tote", "oricon50", "other"}

\* The built-in specs.  They carry neither processingCapacity nor
\* totalPorts, so the calculation reads its .get defaults (1200, 200).
DefaultSpecs ==
  [m \in ModelIds |->
     CASE m = "mini-cart"  -> [maxL |-> 400, maxW |-> 320, maxH |-> 150, maxWeight |-> 5000,
                               processingCapacity |-> 1200, totalPorts |-> 200,
                               blocksIsDict |-> FALSE, blocks |-> 2, blocksMin |-> 1, blocksMax |-> 10,
                               dimL |-> 56, dimW |-> 26, dimH |-> 22]
       [] m = "mini-fixed" -> [maxL |-> 400, maxW |-> 320, maxH |-> 180, maxWeight |-> 5000,
                               processingCapacity |-> 1200, totalPorts |-> 200,
                               blocksIsDict |-> FALSE, blocks |-> 2, blocksMin |-> 1, blocksMax |-> 10,
                               dimL |-> 56, dimW |-> 26, dimH |-> 22]
       [] m = "S"          -> [maxL |-> 400, maxW |-> 320, maxH |-> 200, maxWeight |-> 5000,
                               processingCapacity |-> 1200, totalPorts |-> 200,
                               blocksIsDict |-> TRUE, blocks |-> 0, blocksMin |-> 1, blocksMax |-> 10,
                               dimL |-> 117, dimW |-> 34, dimH |-> 25]
       [] m = "M"          -> [maxL |-> 500, maxW |-> 410, maxH |-> 200, maxWeight |-> 5000,
                               processingCapacity |-> 1200, totalPorts |-> 200,
                               blocksIsDict |-> TRUE, blocks |-> 0, blocksMin |-> 1, blocksMax |-> 10,
                               dimL |-> 130, dimW |-> 44, dimH |-> 25]
       [] OTHER            -> [maxL |-> 750, maxW |-> 500, maxH |-> 200, maxWeight |-> 8000,
                               processingCapacity |-> 1200, totalPorts |-> 200,
                               blocksIsDict |-> TRUE, blocks |-> 0, blocksMin |-> 1, blocksMax |-> 10,
                               dimL |-> 147, dimW |-> 61, dimH |-> 25]]

\* A catalog as the YAML loader accepts it: every model states its own
\* processingCapacity and totalPorts (positive) and its block bounds.
LoadedSpecs ==
  [m \in ModelIds |->
     CASE m = "mini-cart"  -> [maxL |-> 400, maxW |-> 320, maxH |-> 150, maxWeight |-> 5000,
                               processingCapacity |-> 1000, totalPorts |-> 80,
                               blocksIsDict |-> FALSE, blocks |-> 2, blocksMin |-> 1, blocksMax |-> 10,
                               dimL |-> 56, dimW |-> 26, dimH |-> 22]
       [] m = "mini-fixed" -> [maxL |-> 400, maxW |-> 320, maxH |-> 180, maxWeight |-> 5000,
                               processingCapacity |-> 1000, totalPorts |-> 60,
                               blocksIsDict |-> FALSE, blocks |-> 2, blocksMin |-> 1, blocksMax |-> 10,
                               dimL |-> 56, dimW |-> 26, dimH |-> 22]
       [] m = "S"          -> [maxL |-> 400, maxW |-> 320, maxH |-> 200, maxWeight |-> 5000,
                               processingCapacity |-> 1200, totalPorts |-> 200,
                               blocksIsDict |-> TRUE, blocks |-> 0, blocksMin |-> 1, blocksMax |-> 3,
                               dimL |-> 117, dimW |-> 34, dimH |-> 25]
       [] m = "M"          -> [maxL |-> 500, maxW |-> 410, maxH |-> 200, maxWeight |-> 5000,
                               processingCapacity |-> 1500, totalPorts |-> 250,
                               blocksIsDict |-> TRUE, blocks |-> 0, blocksMin |-> 2, blocksMax |-> 10,
                               dimL |-> 130, dimW |-> 44, dimH |-> 25]
       [] OTHER            -> [maxL |-> 750, maxW |-> 500, maxH |-> 200, maxWeight |-> 8000,
                               processingCapacity |-> 1500, totalPorts |-> 160,
                               blocksIsDict |-> TRUE, blocks |-> 0, blocksMin |-> 1, blocksMax |-> 10,
                               dimL |-> 147, dimW |-> 61, dimH |-> 25]]

SpecTables == {DefaultSpecs, LoadedSpecs}

----------------------------------------------------------------------------
(* The catalog store: container-compatibility matrix *)

Entry(sup, rec, ppb) ==
  [present |-> TRUE, supported |-> sup, recommended |-> rec, ports_per_block |-> ppb]

NoEntry ==
  [present |-> FALSE, supported |-> FALSE, recommended |-> FALSE, ports_per_block |-> 0]

\* The built-in matrix (the rows of the two container types modelled).
DefaultMatrix ==
  [m \in ModelIds |-> [c \in ContainerTypes |->
     CASE c = "other"                        -> NoEntry
       [] m = "mini-cart"  /\ c = "tote"     -> Entry(TRUE, TRUE, 40)
       [] m = "mini-cart"  /\ c = "oricon50" -> Entry(FALSE, FALSE, 0)
       [] m = "mini-fixed" /\ c = "tote"     -> Entry(FALSE, FALSE, 0)
       [] m = "mini-fixed" /\ c = "oricon50" -> Entry(TRUE, FALSE, 24)
       [] m = "S"          /\ c = "tote"     -> Entry(TRUE, TRUE, 50)
       [] m = "S"          /\ c = "oricon50" -> Entry(TRUE, FALSE, 24)
       [] m = "M"          /\ c = "tote"     -> Entry(TRUE, TRUE, 50)
       [] m = "M"          /\ c = "oricon50" -> Entry(TRUE, TRUE, 32)
       [] OTHER                              -> Entry(TRUE, TRUE, 32)]]

\* A matrix as the YAML loader accepts it: the loader checks the fields of
\* the entries that are present, not that every model and container has one.
LoadedMatrix ==
  [m \in ModelIds |-> [c \in ContainerTypes |->
     CASE c = "other"                        -> NoEntry
       [] m = "mini-cart"  /\ c = "tote"     -> Entry(TRUE, TRUE, 40)
       [] m = "mini-cart"  /\ c = "oricon50" -> Entry(FALSE, FALSE, 0)
       [] m = "mini-fixed"                   -> NoEntry
       [] m = "S"          /\ c = "tote"     -> Entry(TRUE, TRUE, 50)
       [] m = "S"          /\ c = "oricon50" -> Entry(FALSE, FALSE, 0)
       [] m = "M"          /\ c = "tote"     -> Entry(TRUE, FALSE, 50)
       [] m = "M"          /\ c = "oricon50" -> NoEntry
       [] OTHER                              -> Entry(TRUE, TRUE, 32)]]

MatrixTables == {DefaultMatrix, LoadedMatrix}

----------------------------------------------------------------------------
(* The parameter source: inputs within the form's ranges *)

Product(l, w, h, w10) ==
  [product_length |-> l, product_width |-> w, product_height |-> h, weight10 |-> w10]

\* length x width x height in mm, weight in tenths of a kg
Products ==
  { Product(300, 200, 150, 15),
    Product(320, 400, 160, 50),
    Product(410, 500, 200, 51),
    Product(500, 750, 190, 80),
    Product(800, 600, 150, 15) }

Ops(o, p10, wh, pk10) ==
  [daily_orders |-> o, ppo10 |-> p10, working_hours |-> wh, peak10 |-> pk10]

OpsChoices ==
  { Ops(1000, 20, 8, 10),
    Ops(4600, 20, 8, 10),
    Ops(7200, 10, 8, 10),
    Ops(9120, 10, 8, 10),
    Ops(9200, 20, 8, 10),
    Ops(8000, 20, 8, 15) }

ParamsChoices ==
  { [daily_orders |-> o.daily_orders, ppo10 |-> o.ppo10,
     working_hours |-> o.working_hours, peak10 |-> o.peak10,
     product_length |-> p.product_length, product_width |-> p.product_width,
     product_height |-> p.product_height, weight10 |-> p.weight10,
     container_type |-> c] : o \in OpsChoices, p \in Products, c \in ContainerTypes }

ParamsOf(o, p, c) ==
  [daily_orders |-> o.daily_orders, ppo10 |-> o.ppo10,
   working_hours |-> o.working_hours, peak10 |-> o.peak10,
   product_length |-> p.product_length, product_width |-> p.product_width,
   product_height |-> p.product_height, weight10 |-> p.weight10,
   container_type |-> c]

\* Arguments below the form's minimum values: the function itself takes any
\* dictionary, only the form's widgets keep these out.
DegenerateOps ==
  { Ops(0, 20, 8, 10),
    Ops(1000, 0, 8, 10),
    Ops(1000, 20, 0, 10) }

UncheckedParamsChoices ==
  ParamsChoices
    \cup { ParamsOf(o, p, c) : o \in DegenerateOps, p \in Products, c \in ContainerTypes }

\* the values the form shows when the page is first rendered
FormDefaults == ParamsOf(Ops(1000, 20, 8, 10), Product(300, 200, 150, 15), "tote")

\* what the user submits in a session of several calculations
FormChoices ==
  { FormDefaults,
    ParamsOf(Ops(1000, 20, 8, 10), Product(800, 600, 150, 15), "tote"),
    ParamsOf(Ops(4600, 20, 8, 10), Product(320, 400, 160, 50), "oricon50"),
    ParamsOf(Ops(7200, 10, 8, 10), Product(300, 200, 150, 15), "other") }

Range(s) == { s[i] : i \in DOMAIN s }

DistinctSeqs(S, n) ==
  { s \in UNION { [1..k -> S] : k \in 0..n } : Cardinality(Range(s)) = Len(s) }

Reverse(s) == [i \in 1..Len(s) |-> s[Len(s) + 1 - i]]

\* Iteration orders of the catalog: every order of up to MaxPermLen models,
\* the declaration order of the five models, and its reverse.
CatalogOrders ==
  DistinctSeqs(ModelIds, MaxPermLen) \cup {DefaultOrder, Reverse(DefaultOrder)}

Catalog(order, table) ==
  [i \in 1..Len(order) |-> [name |-> order[i], spec |-> table[order[i]]]]

Catalogs == { Catalog(o, t) : o \in CatalogOrders, t \in SpecTables }

----------------------------------------------------------------------------
(* Required throughput (computed once, before the loop) *)

Ratio(n, d) == [num |-> n, den |-> d]

RECURSIVE GCD(_, _)
GCD(a, b) == IF b = 0 THEN a ELSE GCD(b, a % b)

\* the same value in lowest terms (for a positive denominator)
Normalize(r) ==
  LET g == GCD(r.num, r.den) IN Ratio(r.num \div g, r.den \div g)

\* daily_pieces = daily_orders * pieces_per_order, in tenths of a piece
daily_pieces10(p) == p.daily_orders * p.ppo10

\* (daily_pieces / working_hours) * peak_ratio
required_pcs_per_hour(p) ==
  Ratio(daily_pieces10(p) * p.peak10, 100 * p.working_hours)

\* (daily_orders / working_hours) * peak_ratio
required_orders_per_hour(p) ==
  Ratio(p.daily_orders * p.peak10, 10 * p.working_hours)

----------------------------------------------------------------------------
(* Constraint filter *)

product_weight_g(p) == p.weight10 * 100

fits_normal(spec, p) ==
  (p.product_length <= spec.maxL) /\ (p.product_width <= spec.maxW)

\* variant: the rotated orientation is not tried
fits_rotated_NotTried(spec, p) == FALSE

fits_rotated(spec, p) ==
  (p.product_length <= spec.maxW) /\ (p.product_width <= spec.maxL)

\* variant: the envelope compared exclusively (a product that is exactly
\* as large as the envelope is rejected)
SizeRejected_Exclusive(spec, p) ==
  \/ (~((p.product_length < spec.maxL) /\ (p.product_width < spec.maxW))
      /\ ~((p.product_length < spec.maxW) /\ (p.product_width < spec.maxL)))
  \/ p.product_height >= spec.maxH
  \/ product_weight_g(p) >= spec.maxWeight

\* variant: only height and weight are compared
SizeRejected_HeightWeightOnly(spec, p) ==
  \/ p.product_height > spec.maxH
  \/ product_weight_g(p) > spec.maxWeight

\* TRUE when the model is skipped for size: the condition of the `continue`
SizeRejected(spec, p) ==
  \/ (~fits_normal(spec, p) /\ ~fits_rotated(spec, p))
  \/ p.product_height > spec.maxH
  \/ product_weight_g(p) > spec.maxWeight

\* the condition of the alternatives loop, written positively in the code
AltSizeAccepted(spec, p) ==
  /\ (fits_normal(spec, p) \/ fits_rotated(spec, p))
  /\ p.product_height <= spec.maxH
  /\ product_weight_g(p) <= spec.maxWeight

Config(sup, rec, ppb) ==
  [supported |-> sup, recommended |-> rec, ports_per_block |-> ppb]

\* what the lookup returns when the matrix has no entry
FallbackConfig == Config(TRUE, FALSE, 32)

get_container_model_config(model_id, container_type, matrix) ==
  LET e == matrix[model_id][container_type] IN
    IF e.present
      THEN IF ~e.supported
             THEN Config(FALSE, FALSE, 0)
             ELSE Config(e.supported, e.recommended, e.ports_per_block)
      ELSE FallbackConfig

\* `container_config and container_config.get('supported')`
ContainerAccepted(cfg) == cfg.supported

----------------------------------------------------------------------------
(* Capacity planner *)

\* 'mini' in model_name.lower(), over the model ids of the catalogs above
IsMini(model_name) == model_name \in {"mini-cart", "mini-fixed"}

\* variant: units counted against the nominal capacity
units_by_capacity_Nominal(spec, p) ==
  LET r == required_pcs_per_hour(p) IN
    CeilDiv(r.num, r.den * spec.processingCapacity)

\* np.ceil(required_pcs_per_hour / (processing_capacity * TARGET_UTILIZATION))
units_by_capacity(spec, p) ==
  LET r == required_pcs_per_hour(p) IN
    CeilDiv(r.num * 100, r.den * spec.processingCapacity * TARGET_UTILIZATION)

\* np.ceil(required_orders_per_hour / effective_rotation)
min_ports_needed(p) ==
  LET r == required_orders_per_hour(p) IN
    CeilDiv(r.num, r.den * TARGET_ROTATION)

\* variant: the operands of the division exchanged
units_by_ports_Exchanged(spec, p) == CeilDiv(spec.totalPorts, min_ports_needed(p))

units_by_ports(spec, p) == CeilDiv(min_ports_needed(p), spec.totalPorts)

recommended_units(spec, p) ==
  Max(units_by_capacity(spec, p), units_by_ports(spec, p))

\* variant: the cutoff one unit too late
UnitsExceeded_OffByOne(units) == units > MAX_UNITS + 1

UnitsExceeded(units) == units > MAX_UNITS

ports_per_unit(spec, p, units) ==
  Min(IF units > 0 THEN CeilDiv(min_ports_needed(p), units) ELSE min_ports_needed(p),
      spec.totalPorts)

\* variant: the block count capped from below only
ClampBlocks_NoUpperClamp(spec, n) ==
  Max(IF spec.blocksIsDict THEN spec.blocksMin ELSE 1, n)

ClampBlocks(spec, n) ==
  LET max_blocks == IF spec.blocksIsDict THEN spec.blocksMax ELSE 10
      min_blocks == IF spec.blocksIsDict THEN spec.blocksMin ELSE 1
  IN Max(min_blocks, Min(n, max_blocks))

num_blocks(model_name, spec, cfg, ppu) ==
  IF IsMini(model_name)
    THEN spec.blocks
    ELSE ClampBlocks(spec, CeilDiv(ppu, cfg.ports_per_block))

\* variant: the interval count not recomputed from the clamped block count
num_intervals_NotRecomputed(model_name, spec, cfg, blocks) == spec.totalPorts

num_intervals(model_name, spec, cfg, blocks) ==
  IF IsMini(model_name)
    THEN spec.totalPorts
    ELSE blocks * cfg.ports_per_block

\* variant: the load measured against the capacity derated by the target
\* utilization (19/20)
capacity_utilization_Derated(spec, p, units) ==
  LET r == Normalize(required_pcs_per_hour(p)) IN
    Ratio(r.num * 2000, r.den * spec.processingCapacity * units * 19)

\* (required_pcs_per_hour / (processing_capacity * recommended_units)) * 100
capacity_utilization(spec, p, units) ==
  LET r == required_pcs_per_hour(p) IN
    Ratio(r.num * 100, r.den * spec.processingCapacity * units)

\* required_orders_per_hour / (num_intervals * recommended_units)
actual_rotation(p, intervals, units) ==
  LET r == required_orders_per_hour(p) IN
    Ratio(r.num, r.den * intervals * units)

----------------------------------------------------------------------------
(* Scorer: the score in tenths *)

\* a <= u <= b for a ratio u and integers a, b
RatioBetween(a, u, b) == (a * u.den <= u.num) /\ (u.num <= b * u.den)

RatioAbove(u, a) == u.num > a * u.den

\* variant: the threshold compared exclusively
ModelPriority_ThresholdExclusive(model_name, p) ==
  IF IsMini(model_name)
    THEN IF daily_pieces10(p) < MiniThresholdPcs * 10
           THEN PriorityMiniSmall
           ELSE PriorityMiniLarge
    ELSE CASE model_name = "S" -> PriorityS
           [] model_name = "M" -> PriorityM
           [] model_name = "L" -> PriorityL
           [] OTHER            -> 0

ModelPriority(model_name, p) ==
  IF IsMini(model_name)
    THEN IF daily_pieces10(p) <= MiniThresholdPcs * 10
           THEN PriorityMiniSmall
           ELSE PriorityMiniLarge
    ELSE CASE model_name = "S" -> PriorityS
           [] model_name = "M" -> PriorityM
           [] model_name = "L" -> PriorityL
           [] OTHER            -> 0

\* variant: the penalty applied to everything above high_max
UtilizationScore_PenaltyAboveHigh(util) ==
  IF RatioBetween(OptimalMin, util, OptimalMax)
    THEN OptimalBonus
    ELSE IF RatioAbove(util, OptimalMax) /\ ~RatioAbove(util, HighMax)
           THEN HighBonus
           ELSE IF RatioAbove(util, HighMax) THEN OverloadPenalty ELSE 0

UtilizationScore(util) ==
  IF RatioBetween(OptimalMin, util, OptimalMax)
    THEN OptimalBonus
    ELSE IF RatioAbove(util, OptimalMax) /\ ~RatioAbove(util, HighMax)
           THEN HighBonus
           ELSE IF RatioAbove(util, 100) THEN OverloadPenalty ELSE 0

\* variant: no gain for fewer intervals than the baseline
Score10_NoGainBelowBaseline(model_name, cfg, p, units, intervals, util) ==
    10 * ModelPriority(model_name, p)
  + (IF cfg.recommended THEN 10 * ContainerRecommendedBonus ELSE 0)
  + 10 * UtilizationScore(util)
  - 10 * (units - 1) * UnitsPenalty
  - Max(0, intervals - PortsBaseline) * PortsPenalty10

Score10(model_name, cfg, p, units, intervals, util) ==
    10 * ModelPriority(model_name, p)
  + (IF cfg.recommended THEN 10 * ContainerRecommendedBonus ELSE 0)
  + 10 * UtilizationScore(util)
  - 10 * (units - 1) * UnitsPenalty
  - (intervals - PortsBaseline) * PortsPenalty10

\* variant: an equal score replaces the running best
Better_OrEqual(score, best) == score >= best

\* variant: the running best starts at 0 instead of minus infinity
Better_FromZero(score, best) == score > (IF best < 0 THEN 0 ELSE best)

\* `if score > best_score`
Better(score, best) == score > best

----------------------------------------------------------------------------
(* State of one call of calculate_omnisorter_spec *)

NoConfig == Config(FALSE, FALSE, 0)

\* selected_model = None
NoSpec ==
  [maxL |-> 0, maxW |-> 0, maxH |-> 0, maxWeight |-> 0,
   processingCapacity |-> 0, totalPorts |-> 0,
   blocksIsDict |-> FALSE, blocks |-> 0, blocksMin |-> 0, blocksMax |-> 0,
   dimL |-> 0, dimW |-> 0, dimH |-> 0]

NoModel ==
  [name |-> "none", spec |-> NoSpec, container_config |-> NoConfig, score |-> NegInf]

\* best_calculation = None
NoCalculation ==
  [num_intervals |-> 0, num_blocks |-> 0, recommended_units |-> 0,
   capacity_utilization |-> Ratio(0, 1), actual_rotation |-> Ratio(0, 1),
   effective_rotation |-> 0, min_ports_needed |-> 0]

\* the loop body's local variables, unbound before the first iteration
NoLocals ==
  [model_name |-> "none", container_config |-> NoConfig,
   units_by_capacity |-> 0, min_ports_needed |-> 0, units_by_ports |-> 0,
   recommended_units |-> 0, ports_per_unit |-> 0, num_blocks |-> 0,
   num_intervals |-> 0, capacity_utilization |-> Ratio(0, 1), score |-> 0]

\* The lines debug_info gets for one model (one record per iteration), or
\* the closing line.  The four header lines written before the loop are
\* left out, so that line i is the one of the catalog's i-th model.
DebugLine(model, tag, units, ubc, ubp, ports) ==
  [model |-> model, tag |-> tag, units |-> units,
   units_by_capacity |-> ubc, units_by_ports |-> ubp, min_ports_needed |-> ports]

Pending ==
  [kind |-> "pending", selected_model |-> NoModel,
   num_intervals |-> 0, num_blocks |-> 0,
   required_capacity_per_hour |-> Ratio(0, 1), required_orders_per_hour |-> Ratio(0, 1),
   actual_capacity |-> 0, capacity_utilization |-> Ratio(0, 1), recommended_units |-> 0,
   installation_length |-> 0, installation_width |-> 0, installation_height |-> 0,
   alternatives |-> <<>>, daily_pieces10 |-> 0,
   effective_rotation |-> 0, actual_rotation |-> Ratio(0, 1), min_ports_needed |-> 0]

\* variant: an empty result record is returned in place of None
NoMatch_EmptyRecord == [Pending EXCEPT !.kind = "result"]

\* return None
NoMatch == [Pending EXCEPT !.kind = "none"]

\* the call ends with an uncaught ZeroDivisionError instead of a return value
Raised == [Pending EXCEPT !.kind = "ZeroDivisionError"]

\* st.session_state has no 'last_params' key
NoParams == ParamsOf(Ops(0, 0, 0, 0), Product(0, 0, 0, 0), "none")

\* nothing displayed; the contact form is given None, None
NothingRendered == [kind |-> "nothing", result |-> Pending, params |-> NoParams]

NoInquiry == [params |-> NoParams, result |-> NoMatch]

\* a getter or the import that has not run
NotCalled == [kind |-> "not_called", error |-> "none"]

NoImport == [ok |-> FALSE, message |-> "not_called"]

\* the configuration side at rest: no getter called, nothing imported
\* (initialize_session_state_safely sets container_model_matrix to None)
ConfigAtRest ==
  /\ got_specs = NotCalled
  /\ got_matrix = NotCalled
  /\ session_matrix = "none"
  /\ import_result = NoImport
  /\ imports = 0

\* the environment in which the files load
GoodEnv == [loader_available |-> TRUE, specs_file |-> "ok", matrix_file |-> "ok"]

\* the function's frame before its first statement, in a fresh session
FreshCall ==
  /\ idx = 1
  /\ selected_model = NoModel
  /\ best_score = NegInf
  /\ best_calculation = NoCalculation
  /\ loc = NoLocals
  /\ debug_info = <<>>
  /\ alternatives = <<>>
  /\ result = Pending
  /\ session_debug_info = <<>>
  /\ last_result = Pending
  /\ last_params = NoParams
  /\ calculation_attempted = FALSE
  /\ rendered = NothingRendered
  /\ inquiry = NoInquiry

\* one call of calculate_omnisorter_spec(params), entered with arguments
\* the form can produce
Init ==
  /\ params \in ParamsChoices
  /\ PRODUCT_SPECS \in Catalogs
  /\ CONTAINER_MODEL_MATRIX \in MatrixTables
  /\ APP_SETTINGS = DefaultSettings
  /\ env = GoodEnv
  /\ ConfigAtRest
  /\ pc = "start"
  /\ calls = 1
  /\ FreshCall

\* one call entered with any arguments, the form's minimum values not applied
InitUnchecked ==
  /\ params \in UncheckedParamsChoices
  /\ PRODUCT_SPECS \in Catalogs
  /\ CONTAINER_MODEL_MATRIX \in MatrixTables
  /\ APP_SETTINGS = DefaultSettings
  /\ env = GoodEnv
  /\ ConfigAtRest
  /\ pc = "start"
  /\ calls = 1
  /\ FreshCall

\* one call under settings as a settings file can give them: a target
\* rotation of any sign, a target utilization up to and above 1.0
SettingsChoices ==
  [target_utilization_pct : {95, 120}, target_rotation : {-2, 0, 5, 8}]

ConfiguredParamsChoices ==
  { ParamsOf(o, p, "tote") :
      o \in { Ops(1000, 20, 8, 10), Ops(1500, 20, 8, 10), Ops(4600, 20, 8, 10),
              Ops(9120, 10, 8, 10) },
      p \in { Product(300, 200, 150, 15), Product(410, 500, 200, 51) } }

InitConfigured ==
  /\ params \in ConfiguredParamsChoices
  /\ PRODUCT_SPECS \in Catalogs
  /\ CONTAINER_MODEL_MATRIX \in MatrixTables
  /\ APP_SETTINGS \in SettingsChoices
  /\ env = GoodEnv
  /\ ConfigAtRest
  /\ pc = "start"
  /\ calls = 1
  /\ FreshCall

\* the page as first rendered: nothing calculated yet
InitSession ==
  /\ params = FormDefaults
  /\ PRODUCT_SPECS \in Catalogs
  /\ CONTAINER_MODEL_MATRIX \in MatrixTables
  /\ APP_SETTINGS = DefaultSettings
  /\ env = GoodEnv
  /\ ConfigAtRest
  /\ pc = "idle"
  /\ calls = 0
  /\ FreshCall

----------------------------------------------------------------------------
(* Entry of the call: settings, throughput, the loop's initial values *)

\* daily_pieces / working_hours and daily_orders / working_hours
ThroughputRaises == params.working_hours = 0

Start ==
  /\ pc = "start"
  /\ ~ThroughputRaises
  /\ debug_info' = <<>>
  /\ selected_model' = NoModel
  /\ best_score' = NegInf
  /\ best_calculation' = NoCalculation
  /\ idx' = 1
  /\ pc' = "select"
  /\ UNCHANGED <<inputs, ui, page, config, loc, alternatives, result, session_debug_info>>

RaiseAtStart ==
  /\ pc = "start"
  /\ ThroughputRaises
  /\ debug_info' = <<>>
  /\ result' = Raised
  /\ pc' = "done"
  /\ UNCHANGED <<inputs, ui, page, config, idx, selected_model, best_score, best_calculation,
                 loc, alternatives, session_debug_info>>

----------------------------------------------------------------------------
(* The selection loop: one action per path through the loop body *)

InSelectLoop == pc = "select" /\ idx <= Len(PRODUCT_SPECS)

CurName == PRODUCT_SPECS[idx].name

CurSpec == PRODUCT_SPECS[idx].spec

CurConfig ==
  get_container_model_config(CurName, params.container_type, CONTAINER_MODEL_MATRIX)

\* physical constraint fails: continue
SelectSkipSize ==
  /\ InSelectLoop
  /\ SizeRejected(CurSpec, params)
  /\ debug_info' = Append(debug_info, DebugLine(CurName, "SKIP_SIZE", 0, 0, 0, 0))
  /\ loc' = [loc EXCEPT !.model_name = CurName]
  /\ idx' = idx + 1
  /\ UNCHANGED <<inputs, ui, page, config, pc, selected_model, best_score, best_calculation,
                 alternatives, result, session_debug_info>>

\* container not supported: continue
SelectSkipContainer ==
  /\ InSelectLoop
  /\ ~SizeRejected(CurSpec, params)
  /\ ~ContainerAccepted(CurConfig)
  /\ debug_info' = Append(debug_info, DebugLine(CurName, "SKIP_CONTAINER", 0, 0, 0, 0))
  /\ loc' = [loc EXCEPT !.model_name = CurName, !.container_config = CurConfig]
  /\ idx' = idx + 1
  /\ UNCHANGED <<inputs, ui, page, config, pc, selected_model, best_score, best_calculation,
                 alternatives, result, session_debug_info>>

\* effective_capacity_per_unit / pieces_per_order
SizingRaises == params.ppo10 = 0

\* required_pcs_per_hour / total_capacity, and
\* required_orders_per_hour / (num_intervals * recommended_units)
ScoringRaises(spec, units, intervals) ==
  (spec.processingCapacity * units = 0) \/ (intervals * units = 0)

\* the locals as the sizing part of the body leaves them
SizedLocals ==
  [loc EXCEPT !.model_name = CurName,
              !.container_config = CurConfig,
              !.units_by_capacity = units_by_capacity(CurSpec, params),
              !.min_ports_needed = min_ports_needed(params),
              !.units_by_ports = units_by_ports(CurSpec, params),
              !.recommended_units = recommended_units(CurSpec, params)]

\* unit count above the maximum: continue
SelectSkipUnits ==
  /\ InSelectLoop
  /\ ~SizeRejected(CurSpec, params)
  /\ ContainerAccepted(CurConfig)
  /\ ~SizingRaises
  /\ UnitsExceeded(SizedLocals.recommended_units)
  /\ debug_info' = Append(debug_info,
                          DebugLine(CurName, "SKIP_UNITS", SizedLocals.recommended_units,
                                    SizedLocals.units_by_capacity, SizedLocals.units_by_ports, 0))
  /\ loc' = SizedLocals
  /\ idx' = idx + 1
  /\ UNCHANGED <<inputs, ui, page, config, pc, selected_model, best_score, best_calculation,
                 alternatives, result, session_debug_info>>

\* the locals as the whole body leaves them
ScoredLocals ==
  LET units     == SizedLocals.recommended_units
      ppu       == ports_per_unit(CurSpec, params, units)
      blocks    == num_blocks(CurName, CurSpec, CurConfig, ppu)
      intervals == num_intervals(CurName, CurSpec, CurConfig, blocks)
      util      == capacity_utilization(CurSpec, params, units)
  IN [SizedLocals EXCEPT !.ports_per_unit = ppu,
                         !.num_blocks = blocks,
                         !.num_intervals = intervals,
                         !.capacity_utilization = util,
                         !.score = Score10(CurName, CurConfig, params, units, intervals, util)]

\* the model is sized and scored; it replaces the running best on a higher score
SelectScore ==
  /\ InSelectLoop
  /\ ~SizeRejected(CurSpec, params)
  /\ ContainerAccepted(CurConfig)
  /\ ~SizingRaises
  /\ ~UnitsExceeded(SizedLocals.recommended_units)
  /\ ~ScoringRaises(CurSpec, ScoredLocals.recommended_units, ScoredLocals.num_intervals)
  /\ debug_info' = Append(debug_info,
                          DebugLine(CurName, "PASS", ScoredLocals.recommended_units, 0, 0,
                                    ScoredLocals.min_ports_needed))
  /\ loc' = ScoredLocals
  /\ IF Better(ScoredLocals.score, best_score)
       THEN /\ best_score' = ScoredLocals.score
            /\ selected_model' = [name |-> CurName, spec |-> CurSpec,
                                  container_config |-> CurConfig,
                                  score |-> ScoredLocals.score]
            /\ best_calculation' =
                 [num_intervals |-> ScoredLocals.num_intervals,
                  num_blocks |-> ScoredLocals.num_blocks,
                  recommended_units |-> ScoredLocals.recommended_units,
                  capacity_utilization |-> ScoredLocals.capacity_utilization,
                  actual_rotation |-> actual_rotation(params, ScoredLocals.num_intervals,
                                                      ScoredLocals.recommended_units),
                  effective_rotation |-> TARGET_ROTATION,
                  min_ports_needed |-> ScoredLocals.min_ports_needed]
       ELSE UNCHANGED <<best_score, selected_model, best_calculation>>
  /\ idx' = idx + 1
  /\ UNCHANGED <<inputs, ui, page, config, pc, alternatives, result, session_debug_info>>

\* a division by zero in the body ends the call
RaiseInLoop ==
  /\ InSelectLoop
  /\ ~SizeRejected(CurSpec, params)
  /\ ContainerAccepted(CurConfig)
  /\ \/ SizingRaises
     \/ /\ ~UnitsExceeded(SizedLocals.recommended_units)
        /\ ScoringRaises(CurSpec, ScoredLocals.recommended_units, ScoredLocals.num_intervals)
  /\ loc' = IF SizingRaises
              THEN [loc EXCEPT !.model_name = CurName,
                               !.container_config = CurConfig,
                               !.units_by_capacity = units_by_capacity(CurSpec, params)]
              ELSE [SizedLocals EXCEPT !.ports_per_unit = ScoredLocals.ports_per_unit,
                                       !.num_blocks = ScoredLocals.num_blocks,
                                       !.num_intervals = ScoredLocals.num_intervals]
  /\ debug_info' = IF SizingRaises
                     THEN debug_info
                     ELSE Append(debug_info,
                                 DebugLine(CurName, "PASS", SizedLocals.recommended_units, 0, 0,
                                           SizedLocals.min_ports_needed))
  /\ result' = Raised
  /\ pc' = "done"
  /\ UNCHANGED <<inputs, ui, page, config, idx, selected_model, best_score, best_calculation,
                 alternatives, session_debug_info>>

----------------------------------------------------------------------------
(* After the selection loop *)

SelectLoopDone == pc = "select" /\ idx > Len(PRODUCT_SPECS)

\* `if not selected_model`: the debug lines go to the session, None is returned
ReturnNone ==
  /\ SelectLoopDone
  /\ selected_model = NoModel
  /\ debug_info' = Append(debug_info, DebugLine("none", "NO_MATCH", 0, 0, 0, 0))
  /\ session_debug_info' = debug_info'
  /\ result' = NoMatch
  /\ pc' = "done"
  /\ UNCHANGED <<inputs, ui, page, config, idx, selected_model, best_score, best_calculation,
                 loc, alternatives>>

\* variant: the alternatives list is not emptied, as when it outlives the
\* call (a module-level list, a mutable default argument)
BeginAlternatives_ListKept ==
  /\ pc = "select" /\ idx > Len(PRODUCT_SPECS)
  /\ selected_model # NoModel
  /\ debug_info' = Append(debug_info, DebugLine(selected_model.name, "SELECTED", 0, 0, 0, 0))
  /\ session_debug_info' = debug_info'
  /\ loc' = [loc EXCEPT !.num_intervals = best_calculation.num_intervals,
                        !.num_blocks = best_calculation.num_blocks,
                        !.recommended_units = best_calculation.recommended_units,
                        !.capacity_utilization = best_calculation.capacity_utilization]
  /\ idx' = 1
  /\ pc' = "alt"
  /\ UNCHANGED <<inputs, ui, page, config, selected_model, best_score, best_calculation, result,
                 alternatives>>

\* variant: the locals keep the values of the model the loop scored last
BeginAlternatives_NoReadBack ==
  /\ SelectLoopDone
  /\ selected_model # NoModel
  /\ debug_info' = Append(debug_info, DebugLine(selected_model.name, "SELECTED", 0, 0, 0, 0))
  /\ session_debug_info' = debug_info'
  /\ alternatives' = <<>>
  /\ idx' = 1
  /\ pc' = "alt"
  /\ UNCHANGED <<inputs, ui, page, config, selected_model, best_score, best_calculation, result,
                 loc>>

\* a model was selected: its calculation is read back into the locals and
\* the alternatives loop starts
BeginAlternatives ==
  /\ SelectLoopDone
  /\ selected_model # NoModel
  /\ debug_info' = Append(debug_info, DebugLine(selected_model.name, "SELECTED", 0, 0, 0, 0))
  /\ session_debug_info' = debug_info'
  /\ loc' = [loc EXCEPT !.num_intervals = best_calculation.num_intervals,
                        !.num_blocks = best_calculation.num_blocks,
                        !.recommended_units = best_calculation.recommended_units,
                        !.capacity_utilization = best_calculation.capacity_utilization]
  /\ alternatives' = <<>>
  /\ idx' = 1
  /\ pc' = "alt"
  /\ UNCHANGED <<inputs, ui, page, config, selected_model, best_score, best_calculation, result>>

----------------------------------------------------------------------------
(* The alternatives loop *)

InAltLoop == pc = "alt" /\ idx <= Len(PRODUCT_SPECS)

\* the model of this iteration is listed as an alternative
AltAccepted(model_name, spec) ==
  /\ AltSizeAccepted(spec, params)
  /\ ContainerAccepted(get_container_model_config(model_name, params.container_type,
                                                  CONTAINER_MODEL_MATRIX))

\* `if model_name == selected_model['name']: continue`
AltSkipSelected ==
  /\ InAltLoop
  /\ CurName = selected_model.name
  /\ loc' = [loc EXCEPT !.model_name = CurName]
  /\ idx' = idx + 1
  /\ UNCHANGED <<inputs, ui, page, config, pc, selected_model, best_score, best_calculation,
                 debug_info, alternatives, result, session_debug_info>>

AltSkipUnfit ==
  /\ InAltLoop
  /\ CurName # selected_model.name
  /\ ~AltAccepted(CurName, CurSpec)
  /\ loc' = [loc EXCEPT !.model_name = CurName]
  /\ idx' = idx + 1
  /\ UNCHANGED <<inputs, ui, page, config, pc, selected_model, best_score, best_calculation,
                 debug_info, alternatives, result, session_debug_info>>

AltAppend ==
  /\ InAltLoop
  /\ CurName # selected_model.name
  /\ AltAccepted(CurName, CurSpec)
  /\ alternatives' = Append(alternatives,
                            [name |-> CurName, spec |-> CurSpec, container_config |-> CurConfig])
  /\ loc' = [loc EXCEPT !.model_name = CurName]
  /\ idx' = idx + 1
  /\ UNCHANGED <<inputs, ui, page, config, pc, selected_model, best_score, best_calculation,
                 debug_info, result, session_debug_info>>

\* variant: the list returned whole
Truncate_Missing(alts) == alts

\* alternatives[:3]
Truncate(alts) == SubSeq(alts, 1, Min(Len(alts), AltCap))

\* the result record is assembled and returned
ReturnResult ==
  /\ pc = "alt"
  /\ idx > Len(PRODUCT_SPECS)
  /\ alternatives' = Truncate(alternatives)
  /\ result' =
       [kind |-> "result",
        selected_model |-> selected_model,
        num_intervals |-> loc.num_intervals,
        num_blocks |-> loc.num_blocks,
        required_capacity_per_hour |-> required_pcs_per_hour(params),
        required_orders_per_hour |-> required_orders_per_hour(params),
        actual_capacity |-> selected_model.spec.processingCapacity,
        capacity_utilization |-> loc.capacity_utilization,
        recommended_units |-> loc.recommended_units,
        installation_length |-> selected_model.spec.dimL * 100,
        installation_width |-> selected_model.spec.dimW * 100,
        installation_height |-> selected_model.spec.dimH * 100,
        alternatives |-> alternatives',
        daily_pieces10 |-> daily_pieces10(params),
        effective_rotation |-> best_calculation.effective_rotation,
        actual_rotation |-> best_calculation.actual_rotation,
        min_ports_needed |-> best_calculation.min_ports_needed]
  /\ pc' = "done"
  /\ UNCHANGED <<inputs, ui, page, config, idx, selected_model, best_score, best_calculation,
                 loc, debug_info, session_debug_info>>

----------------------------------------------------------------------------

(* main(): the button, the call, the three session keys *)

\* the button is pressed with the form's current values
PressCalculate ==
  /\ pc = "idle"
  /\ calls < MaxCalls
  /\ params' \in FormChoices
  /\ calls' = calls + 1
  /\ result' = Pending
  /\ pc' = "start"
  /\ UNCHANGED <<PRODUCT_SPECS, CONTAINER_MODEL_MATRIX, APP_SETTINGS, page, config,
                 idx, selected_model, best_score,
                 best_calculation, loc, debug_info, alternatives, session_debug_info,
                 last_result, last_params, calculation_attempted>>

\* st.session_state.get('last_result'): None when the key is absent
SessionGetResult(lres) == IF lres.kind = "pending" THEN NoMatch ELSE lres

\* the results section: nothing before a calculation was attempted, else
\* render_results, which shows the guidance for a None result
RenderResults(attempted, lres, lpar) ==
  IF attempted /\ lpar # NoParams
    THEN IF SessionGetResult(lres).kind = "result"
           THEN [kind |-> "results", result |-> lres, params |-> lpar]
           ELSE [kind |-> "guidance", result |-> NoMatch, params |-> lpar]
    ELSE NothingRendered

\* render_contact_form(params=..., result=...)
ContactForm(lres, lpar) == [params |-> lpar, result |-> SessionGetResult(lres)]

\* variant: a None result is not stored (`if result:` before the three
\* assignments)
StoreResult_DropsNone ==
  /\ pc = "done"
  /\ result.kind \in {"none", "result"}
  /\ IF result.kind = "result"
       THEN /\ last_result' = result
            /\ last_params' = params
            /\ calculation_attempted' = TRUE
       ELSE UNCHANGED <<last_result, last_params, calculation_attempted>>
  /\ rendered' = RenderResults(calculation_attempted', last_result', last_params')
  /\ inquiry' = ContactForm(last_result', last_params')
  /\ pc' = "idle"
  /\ UNCHANGED <<inputs, config, calls, idx, selected_model, best_score, best_calculation,
                 loc, debug_info, alternatives, result, session_debug_info>>

\* the call returned: its value (None included) and its arguments are kept,
\* then the rest of the page is drawn from the session
StoreResult ==
  /\ pc = "done"
  /\ result.kind \in {"none", "result"}
  /\ last_result' = result
  /\ last_params' = params
  /\ calculation_attempted' = TRUE
  /\ rendered' = RenderResults(calculation_attempted', last_result', last_params')
  /\ inquiry' = ContactForm(last_result', last_params')
  /\ pc' = "idle"
  /\ UNCHANGED <<inputs, config, calls, idx, selected_model, best_score, best_calculation,
                 loc, debug_info, alternatives, result, session_debug_info>>

\* a run of the page without the button (a widget was changed): the form's
\* values are read, the page is drawn from the session
Rerun ==
  /\ pc = "idle"
  /\ params' \in FormChoices
  /\ rendered' = RenderResults(calculation_attempted, last_result, last_params)
  /\ inquiry' = ContactForm(last_result, last_params)
  /\ UNCHANGED <<PRODUCT_SPECS, CONTAINER_MODEL_MATRIX, APP_SETTINGS, config, ui,
                 pc, idx, selected_model, best_score, best_calculation,
                 loc, debug_info, alternatives, result, session_debug_info>>

----------------------------------------------------------------------------

Next ==
  \/ Start
  \/ SelectSkipSize
  \/ SelectSkipContainer
  \/ SelectSkipUnits
  \/ SelectScore
  \/ ReturnNone
  \/ BeginAlternatives
  \/ AltSkipSelected
  \/ AltSkipUnfit
  \/ AltAppend
  \/ ReturnResult

Spec == Init /\ [][Next]_vars

\* the call under configured settings
SpecConfigured == InitConfigured /\ [][Next]_vars

\* the call with unchecked arguments: the divisions can fail
NextUnchecked ==
  \/ Next
  \/ RaiseAtStart
  \/ RaiseInLoop

SpecUnchecked == InitUnchecked /\ [][NextUnchecked]_vars

\* a session of the page: up to MaxCalls calculations
NextSession ==
  \/ PressCalculate
  \/ Next
  \/ StoreResult
  \/ Rerun

SpecSession == InitSession /\ [][NextSession]_vars

----------------------------------------------------------------------------
(* Configuration: the two getters and the import of a matrix document *)

\* what a configuration file can be: loadable, absent, not YAML, or YAML
\* that fails the loader's validation
FileStates == {"ok", "missing", "unparsable", "invalid"}

Envs ==
  [loader_available : BOOLEAN, specs_file : FileStates, matrix_file : FileStates]

\* how a getter or a loader ends
Threw(error) == [kind |-> "raised", error |-> error]

GotLoaded == [kind |-> "loaded", error |-> "none"]

GotDefault == [kind |-> "default", error |-> "none"]

\* the keyword the getters pass to the loaders
GetterKeywords == {"fallback_to_default"}

\* the keywords the loaders' signatures accept
SpecsLoaderKeywords == {"file_path"}

MatrixLoaderKeywords == {"file_path", "specs"}

\* _load_yaml_file raises ConfigLoadError for an absent or unparsable file
LoadYamlRaises(file) == file \in {"missing", "unparsable"}

\* load_omnisorter_specs called with the given keyword arguments
load_omnisorter_specs(keywords, e) ==
  IF ~(keywords \subseteq SpecsLoaderKeywords) THEN Threw("TypeError")
  ELSE IF LoadYamlRaises(e.specs_file) THEN Threw("ConfigLoadError")
  ELSE IF e.specs_file = "invalid" THEN Threw("ConfigValidationError")
  ELSE GotLoaded

\* load_container_model_matrix; without specs it loads the specs itself
load_container_model_matrix(keywords, e) ==
  IF ~(keywords \subseteq MatrixLoaderKeywords) THEN Threw("TypeError")
  ELSE IF LoadYamlRaises(e.matrix_file) THEN Threw("ConfigLoadError")
  ELSE IF load_omnisorter_specs({}, e).kind = "raised"
    THEN load_omnisorter_specs({}, e)
  ELSE IF e.matrix_file = "invalid" THEN Threw("ConfigValidationError")
  ELSE GotLoaded

\* try: import the loader, return its value; except ImportError: default
get_omnisorter_specs(e) ==
  IF ~e.loader_available
    THEN GotDefault
    ELSE load_omnisorter_specs(GetterKeywords, e)

get_container_matrix(e) ==
  IF ~e.loader_available
    THEN GotDefault
    ELSE load_container_model_matrix(GetterKeywords, e)

GetOmnisorterSpecs ==
  /\ pc = "config"
  /\ got_specs' = get_omnisorter_specs(env)
  /\ UNCHANGED <<inputs, ui, page, env, got_matrix, session_matrix,
                 import_result, imports,
                 pc, idx, selected_model, best_score, best_calculation,
                 loc, debug_info, alternatives, result, session_debug_info>>

GetContainerMatrix ==
  /\ pc = "config"
  /\ got_matrix' = get_container_matrix(env)
  /\ UNCHANGED <<inputs, ui, page, env, got_specs, session_matrix,
                 import_result, imports,
                 pc, idx, selected_model, best_score, best_calculation,
                 loc, debug_info, alternatives, result, session_debug_info>>

\* the matrices a document can carry
MatrixIds == {"matrixA", "matrixB"}

\* an imported text: whether json.loads accepts it, its version is '1.0',
\* it has the 'container_model_matrix' key, that value is a mapping of
\* mappings, validate_container_config finds no error, and it has
\* metadata.total_combinations
ImportDocs ==
  [json_ok : BOOLEAN, version_ok : BOOLEAN, has_matrix : BOOLEAN,
   matrix_is_dict : BOOLEAN, valid : BOOLEAN, has_metadata : BOOLEAN,
   matrix : MatrixIds]

ImportOutcome(stored, ok, message) ==
  [stored |-> stored, ok |-> ok, message |-> message]

\* import_container_matrix_config: the session is updated before the
\* success message reads data['metadata']['total_combinations']
import_container_matrix_config(doc) ==
  IF ~doc.json_ok THEN ImportOutcome(FALSE, FALSE, "json_error")
  ELSE IF ~doc.version_ok THEN ImportOutcome(FALSE, FALSE, "unsupported_version")
  ELSE IF ~doc.has_matrix THEN ImportOutcome(FALSE, FALSE, "invalid_format")
  ELSE IF ~doc.matrix_is_dict THEN ImportOutcome(FALSE, FALSE, "import_error")
  ELSE IF ~doc.valid THEN ImportOutcome(FALSE, FALSE, "validation_errors")
  ELSE IF ~doc.has_metadata THEN ImportOutcome(TRUE, FALSE, "import_error")
  ELSE ImportOutcome(TRUE, TRUE, "imported")

ImportMatrix ==
  /\ pc = "config"
  /\ imports < MaxImports
  /\ \E doc \in ImportDocs :
       LET o == import_container_matrix_config(doc) IN
         /\ session_matrix' = IF o.stored THEN doc.matrix ELSE session_matrix
         /\ import_result' = [ok |-> o.ok, message |-> o.message]
  /\ imports' = imports + 1
  /\ UNCHANGED <<inputs, ui, page, env, got_specs, got_matrix,
                 pc, idx, selected_model, best_score, best_calculation,
                 loc, debug_info, alternatives, result, session_debug_info>>

\* before any calculation: the environment of the configuration files
InitConfiguration ==
  /\ params = FormDefaults
  /\ PRODUCT_SPECS = Catalog(DefaultOrder, DefaultSpecs)
  /\ CONTAINER_MODEL_MATRIX = DefaultMatrix
  /\ APP_SETTINGS = DefaultSettings
  /\ env \in Envs
  /\ ConfigAtRest
  /\ pc = "config"
  /\ calls = 0
  /\ FreshCall

NextConfiguration ==
  \/ GetOmnisorterSpecs
  \/ GetContainerMatrix
  \/ ImportMatrix

SpecConfiguration == InitConfiguration /\ [][NextConfiguration]_vars

----------------------------------------------------------------------------
(* Vocabulary of the properties, written from their statements *)

Names == [i \in 1..Len(PRODUCT_SPECS) |-> PRODUCT_SPECS[i].name]

\* position of a model in the catalog (0 when it is not in it)
PosOf(name) ==
  IF \E i \in 1..Len(PRODUCT_SPECS) : Names[i] = name
    THEN CHOOSE i \in 1..Len(PRODUCT_SPECS) : Names[i] = name
    ELSE 0

\* the product fits the envelope in one of the two orientations, and is
\* neither too high nor too heavy; every comparison inclusive
FitsEnvelope(spec, p) ==
  /\ \/ (p.product_length <= spec.maxL /\ p.product_width <= spec.maxW)
     \/ (p.product_length <= spec.maxW /\ p.product_width <= spec.maxL)
  /\ p.product_height <= spec.maxH
  /\ p.weight10 * 100 <= spec.maxWeight

\* the matrix has an entry for the model and the container, marked supported
EntrySupported(name) ==
  LET e == CONTAINER_MODEL_MATRIX[name][params.container_type]
  IN e.present /\ e.supported

\* the container check as the calculation makes it (lookup, then the flag)
LookupSupported(name) ==
  get_container_model_config(name, params.container_type, CONTAINER_MODEL_MATRIX).supported

\* u = ceiling(a / b), stated without division
IsCeil(u, a, b) == (u - 1) * b < a /\ a <= u * b

Finished == pc = "done"

Returned == pc = "done" /\ result.kind = "result"

AltNames(alts) == [i \in 1..Len(alts) |-> alts[i].name]

----------------------------------------------------------------------------
(* C1 *)

\* C1: in the selection loop a model passes the physical-fit check exactly
\* when the product fits its envelope in the normal or the rotated
\* orientation, its height is at most maxH and its weight in grams is at
\* most maxWeight, all inclusive; an iteration for a model that fails the
\* check logs the size skip and leaves the container config, the sizing
\* and score locals, and the running best untouched.
C1_PhysicalFit ==
  [][ InSelectLoop =>
        LET fits == FitsEnvelope(CurSpec, params) IN
          /\ (debug_info'[idx].tag = "SKIP_SIZE") <=> ~fits
          /\ debug_info'[idx].model = CurName
          /\ ~fits =>
               /\ loc'.container_config = loc.container_config
               /\ loc'.recommended_units = loc.recommended_units
               /\ loc'.num_intervals = loc.num_intervals
               /\ loc'.score = loc.score
               /\ selected_model' = selected_model
               /\ best_score' = best_score
               /\ best_calculation' = best_calculation ]_vars

\* a catalog in which one model was skipped for size and another passed
\* although the product only fits rotated and is exactly as high as allowed
C1_Witness ==
  /\ \E i \in 1..Len(debug_info) : debug_info[i].tag = "SKIP_SIZE"
  /\ \E j \in 1..Len(debug_info) :
       /\ debug_info[j].tag = "PASS"
       /\ ~fits_normal(PRODUCT_SPECS[j].spec, params)
       /\ params.product_width = PRODUCT_SPECS[j].spec.maxL

----------------------------------------------------------------------------
(* C2 *)

\* C2: a model whose matrix entry for the request's container type is
\* absent or marked unsupported is neither the selected model nor one of
\* the alternatives of a returned result.
C2_AbsentOrUnsupportedRejected ==
  Returned =>
    \A i \in 1..Len(PRODUCT_SPECS) :
      ~EntrySupported(Names[i]) =>
        /\ result.selected_model.name # Names[i]
        /\ \A k \in 1..Len(result.alternatives) : result.alternatives[k].name # Names[i]

----------------------------------------------------------------------------
(* C3 *)

\* the model at position i passes the filter and the unit-count cutoff
Eligible(i) ==
  /\ FitsEnvelope(PRODUCT_SPECS[i].spec, params)
  /\ LookupSupported(Names[i])
  /\ recommended_units(PRODUCT_SPECS[i].spec, params) <= MAX_UNITS

\* the score of the model at position i, from its own configuration
ScoreAt(i) ==
  LET spec      == PRODUCT_SPECS[i].spec
      cfg       == get_container_model_config(Names[i], params.container_type,
                                              CONTAINER_MODEL_MATRIX)
      units     == recommended_units(spec, params)
      ppu       == ports_per_unit(spec, params, units)
      blocks    == num_blocks(Names[i], spec, cfg, ppu)
      intervals == num_intervals(Names[i], spec, cfg, blocks)
  IN Score10(Names[i], cfg, params, units, intervals,
             capacity_utilization(spec, params, units))

EligibleSet == { i \in 1..Len(PRODUCT_SPECS) : Eligible(i) }

\* C3: once the selection loop has ended, the selected model is the first
\* model in catalog order whose score is the maximum over the models that
\* pass the filter and the unit-count cutoff (the earlier one of two models
\* with the same score).
C3_FirstMaxWins ==
  (pc \in {"alt", "done"} /\ EligibleSet # {}) =>
    LET w == PosOf(selected_model.name) IN
      /\ w \in EligibleSet
      /\ selected_model.score = ScoreAt(w)
      /\ \A i \in EligibleSet : ScoreAt(i) <= ScoreAt(w)
      /\ \A i \in EligibleSet : (ScoreAt(i) = ScoreAt(w)) => w <= i

\* a returned result whose winner ties with a later model of the catalog
C3_Witness ==
  /\ Returned
  /\ \E i \in EligibleSet :
       /\ i > PosOf(selected_model.name)
       /\ ScoreAt(i) = selected_model.score

----------------------------------------------------------------------------
(* C4 *)

\* C4: the unit count of the selected model never exceeds max_units, in the
\* running best and in the returned result, and an iteration for a model
\* whose unit count exceeds it logs the unit skip instead of scoring it.
C4_UnitCutoff ==
  /\ selected_model # NoModel =>
       /\ best_calculation.recommended_units <= MAX_UNITS
       /\ recommended_units(selected_model.spec, params) <= MAX_UNITS
  /\ Returned => result.recommended_units <= MAX_UNITS
  /\ \A i \in 1..Len(debug_info) :
       (/\ debug_info[i].tag \in {"SKIP_UNITS", "PASS"}
        /\ recommended_units(PRODUCT_SPECS[i].spec, params) > MAX_UNITS)
         => debug_info[i].tag = "SKIP_UNITS"

\* a returned result for a catalog in which another model was cut off
C4_Witness ==
  /\ Returned
  /\ \E i \in 1..Len(debug_info) : debug_info[i].tag = "SKIP_UNITS"

----------------------------------------------------------------------------
(* C5 *)

\* C5: the call returns None exactly when no model passes the filter and
\* the unit-count cutoff; otherwise it returns a record with a selected
\* model of the catalog and that model's configuration; nothing is
\* returned before the call ends.
C5_NoMatchIffNoneEligible ==
  /\ ~Finished => result = Pending
  /\ Finished =>
       /\ result.kind \in {"none", "result"}
       /\ (result.kind = "none") <=> (EligibleSet = {})
       /\ result.kind = "none" => result = NoMatch
       /\ result.kind = "result" =>
            /\ PosOf(result.selected_model.name) \in EligibleSet
            /\ result.recommended_units >= 1
            /\ result.num_intervals >= 1
            /\ result.num_blocks >= 1
            /\ result.actual_capacity =
                 PRODUCT_SPECS[PosOf(result.selected_model.name)].spec.processingCapacity

\* None is returned although a model passes the filter (it needs too many units)
C5_Witness ==
  /\ Finished
  /\ result.kind = "none"
  /\ \E i \in 1..Len(PRODUCT_SPECS) :
       FitsEnvelope(PRODUCT_SPECS[i].spec, params) /\ LookupSupported(Names[i])

----------------------------------------------------------------------------
(* C6 *)

\* positions of the models, other than the selected one, that pass the
\* physical-fit and container-support checks, in catalog order
RECURSIVE OthersFrom(_)
OthersFrom(i) ==
  IF i > Len(PRODUCT_SPECS)
    THEN <<>>
    ELSE (IF /\ Names[i] # selected_model.name
             /\ FitsEnvelope(PRODUCT_SPECS[i].spec, params)
             /\ LookupSupported(Names[i])
            THEN <<Names[i]>>
            ELSE <<>>) \o OthersFrom(i + 1)

FirstThree(s) == [k \in 1..(IF Len(s) < 3 THEN Len(s) ELSE 3) |-> s[k]]

\* C6: the alternatives of a returned result are the first three, in
\* catalog order, of the models other than the selected one that pass the
\* physical-fit and container-support checks, whatever their unit count;
\* the selected model is not among them and there are at most three.
C6_Alternatives ==
  Returned =>
    /\ AltNames(result.alternatives) = FirstThree(OthersFrom(1))
    /\ Len(result.alternatives) <= 3
    /\ \A k \in 1..Len(result.alternatives) :
         /\ result.alternatives[k].name # result.selected_model.name
         /\ result.alternatives[k].spec = PRODUCT_SPECS[PosOf(result.alternatives[k].name)].spec
         /\ result.alternatives[k].container_config =
              get_container_model_config(result.alternatives[k].name, params.container_type,
                                         CONTAINER_MODEL_MATRIX)

\* four other models qualify, three are listed, and one of the listed
\* models needs more units than the maximum
C6_Witness ==
  /\ Returned
  /\ Len(OthersFrom(1)) = 4
  /\ Len(result.alternatives) = 3
  /\ \E k \in 1..3 : recommended_units(result.alternatives[k].spec, params) > MAX_UNITS

----------------------------------------------------------------------------
(* C7 *)

\* C7: the selected model and every alternative of a returned result fit
\* the product physically and have a matrix entry for the request's
\* container type that is marked supported.
C7_CandidatesFitAndSupported ==
  Returned =>
    /\ FitsEnvelope(result.selected_model.spec, params)
    /\ EntrySupported(result.selected_model.name)
    /\ \A k \in 1..Len(result.alternatives) :
         /\ FitsEnvelope(result.alternatives[k].spec, params)
         /\ EntrySupported(result.alternatives[k].name)

----------------------------------------------------------------------------
(* C8 *)

\* the last iteration of the selection loop reached sizing
JustSized ==
  /\ pc = "select"
  /\ debug_info # <<>>
  /\ debug_info[Len(debug_info)].tag \in {"SKIP_UNITS", "PASS"}

LastSpec == PRODUCT_SPECS[Len(debug_info)].spec

\* C8: for a model that reaches sizing, units-by-capacity is the ceiling of
\* required pieces per hour over capacity times target utilization, the
\* minimum port count the ceiling of required orders per hour over the
\* target rotation, units-by-ports the ceiling of that over the model's
\* total ports, and the final unit count the larger of the two unit
\* counts; with capacity 1200, utilization 0.95 and 1150 pieces per hour
\* units-by-capacity is 2.
C8_UnitCount ==
  JustSized =>
    LET rp == required_pcs_per_hour(params)
        ro == required_orders_per_hour(params)
    IN /\ IsCeil(loc.units_by_capacity, rp.num * 100,
                 rp.den * LastSpec.processingCapacity * TARGET_UTILIZATION_PCT)
       /\ IsCeil(loc.min_ports_needed, ro.num, ro.den * TARGET_ROTATION)
       /\ IsCeil(loc.units_by_ports, loc.min_ports_needed, LastSpec.totalPorts)
       /\ loc.recommended_units =
            (IF loc.units_by_capacity >= loc.units_by_ports
               THEN loc.units_by_capacity ELSE loc.units_by_ports)
       /\ debug_info[Len(debug_info)].units = loc.recommended_units
       /\ (LastSpec.processingCapacity = 1200 /\ rp.num = 1150 * rp.den)
            => loc.units_by_capacity = 2

\* the stated case: capacity 1200 and exactly 1150 pieces per hour
C8_Witness ==
  /\ JustSized
  /\ LastSpec.processingCapacity = 1200
  /\ required_pcs_per_hour(params).num = 1150 * required_pcs_per_hour(params).den
  /\ loc.units_by_capacity = 2

----------------------------------------------------------------------------
(* C9 *)

\* C9: the selected candidate is never under-provisioned with ports: its
\* intervals per unit times its unit count is at least the minimum port
\* count, and its actual rotation is at most the target rotation.
C9_NoUnderProvisioning ==
  Returned =>
    /\ result.num_intervals * result.recommended_units >= result.min_ports_needed
    /\ result.actual_rotation.num <= result.effective_rotation * result.actual_rotation.den

----------------------------------------------------------------------------
(* C10 *)

\* C10: in a returned result the selected model's intervals per unit are
\* block count times ports-per-block for a standard model and the model's
\* total port count for a mini model.
C10_TotalIntervals ==
  Returned =>
    IF result.selected_model.name \in {"mini-cart", "mini-fixed"}
      THEN result.num_intervals = result.selected_model.spec.totalPorts
      ELSE result.num_intervals =
             result.num_blocks * result.selected_model.container_config.ports_per_block

\* a standard model is selected and its block count is not the one its
\* ports per unit ask for (the clamp moved it)
C10_Witness ==
  /\ Returned
  /\ result.selected_model.name \in {"S", "M", "L"}
  /\ result.num_intervals # result.selected_model.spec.totalPorts
  /\ (result.num_blocks - 1) * result.selected_model.container_config.ports_per_block
       >= result.min_ports_needed

----------------------------------------------------------------------------
(* C11 *)

\* the last iteration of the selection loop sized and scored its model
JustScored ==
  /\ pc = "select"
  /\ debug_info # <<>>
  /\ debug_info[Len(debug_info)].tag = "PASS"

MinBlocksOf(spec) == IF spec.blocksIsDict THEN spec.blocksMin ELSE 1

MaxBlocksOf(spec) == IF spec.blocksIsDict THEN spec.blocksMax ELSE 10

\* b is n brought into [lo, hi]
IsClamped(b, n, lo, hi) ==
  /\ (n < lo) => (b = lo)
  /\ (n > hi) => (b = hi)
  /\ (lo <= n /\ n <= hi) => (b = n)

\* C11: a standard model's block count is the ceiling of its ports per unit
\* over the ports per block, brought into [minBlocks, maxBlocks], so the
\* selected candidate has minBlocks <= blockCount <= maxBlocks; a compact
\* (mini) model's block count is the fixed value of its spec, whatever the
\* demand.
C11_BlockCount ==
  /\ JustScored =>
       IF IsMini(loc.model_name)
         THEN loc.num_blocks = LastSpec.blocks
         ELSE \E n \in 0..loc.ports_per_unit :
                /\ IsCeil(n, loc.ports_per_unit, loc.container_config.ports_per_block)
                /\ IsClamped(loc.num_blocks, n, MinBlocksOf(LastSpec), MaxBlocksOf(LastSpec))
  /\ Returned =>
       IF IsMini(result.selected_model.name)
         THEN result.num_blocks = result.selected_model.spec.blocks
         ELSE /\ MinBlocksOf(result.selected_model.spec) <= result.num_blocks
              /\ result.num_blocks <= MaxBlocksOf(result.selected_model.spec)

\* a standard model is returned whose ports per unit need more blocks than
\* its maximum: the clamp acted
C11_Witness ==
  /\ Returned
  /\ ~IsMini(result.selected_model.name)
  /\ result.num_blocks = MaxBlocksOf(result.selected_model.spec)
  /\ result.num_blocks * result.selected_model.container_config.ports_per_block
       < Min(result.min_ports_needed, result.selected_model.spec.totalPorts)
  /\ result.recommended_units = 1

----------------------------------------------------------------------------
(* C12 *)

\* the same product entered with length and width exchanged
Swapped(p) ==
  [p EXCEPT !.product_length = p.product_width, !.product_width = p.product_length]

\* C12: exchanging the product's length and width changes no feasibility
\* verdict: an iteration of the selection loop skips its model for size
\* exactly when the size check rejects the exchanged product, and an
\* iteration of the alternatives loop lists its model exactly when the
\* exchanged product passes its checks.
C12_OrientationSymmetry ==
  [][ /\ (pc = "select" /\ pc' = "select" /\ idx' = idx + 1) =>
          ((debug_info'[Len(debug_info')].tag = "SKIP_SIZE")
             <=> SizeRejected(PRODUCT_SPECS[idx].spec, Swapped(params)))
      /\ (pc = "alt" /\ pc' = "alt" /\ idx' = idx + 1
            /\ PRODUCT_SPECS[idx].name # selected_model.name) =>
          ((alternatives' # alternatives)
             <=> /\ AltSizeAccepted(PRODUCT_SPECS[idx].spec, Swapped(params))
                 /\ ContainerAccepted(get_container_model_config(
                        PRODUCT_SPECS[idx].name, params.container_type,
                        CONTAINER_MODEL_MATRIX))) ]_vars

\* a model was let through by the size check although the product, as
\* entered, is longer or wider than its envelope: only the other
\* orientation fits
C12_Witness ==
  /\ pc = "select"
  /\ debug_info # <<>>
  /\ debug_info[Len(debug_info)].tag # "SKIP_SIZE"
  /\ \/ params.product_length > LastSpec.maxL
     \/ params.product_width > LastSpec.maxW
  /\ params.product_length # params.product_width

----------------------------------------------------------------------------
(* C13 *)

\* daily order counts to compare with: those of the inputs, the form's
\* smallest and largest value, and one step of the form above d
OrdersToCompare(d) ==
  { o.daily_orders : o \in OpsChoices } \cup {1, 50000, d + 10}

WithOrders(p, o) == [p EXCEPT !.daily_orders = o]

\* a <= b for ratios with positive denominators
RatioLeq(a, b) ==
  IF a.den = b.den THEN a.num <= b.num ELSE a.num * b.den <= b.num * a.den

\* C13: with the model, pieces per order, working hours, peak multiplier
\* and settings fixed, more daily orders never give fewer required pieces
\* per hour, a smaller final unit count or fewer minimum ports.
C13_MonotoneInOrders ==
  /\ JustSized =>
       \A o \in OrdersToCompare(params.daily_orders) :
         (o >= params.daily_orders) =>
           /\ RatioLeq(required_pcs_per_hour(params),
                       required_pcs_per_hour(WithOrders(params, o)))
           /\ loc.recommended_units <= recommended_units(LastSpec, WithOrders(params, o))
           /\ loc.min_ports_needed <= min_ports_needed(WithOrders(params, o))
  /\ Returned =>
       \A o \in OrdersToCompare(params.daily_orders) :
         (o >= params.daily_orders) =>
           /\ RatioLeq(result.required_capacity_per_hour,
                       required_pcs_per_hour(WithOrders(params, o)))
           /\ result.min_ports_needed <= min_ports_needed(WithOrders(params, o))
           /\ result.recommended_units
                <= recommended_units(result.selected_model.spec, WithOrders(params, o))

\* a model was sized and a larger order count of the inputs needs strictly
\* more units and more ports of it
C13_Witness ==
  /\ JustSized
  /\ \E o \in OrdersToCompare(params.daily_orders) :
       /\ o > params.daily_orders
       /\ loc.recommended_units < recommended_units(LastSpec, WithOrders(params, o))
       /\ loc.min_ports_needed < min_ports_needed(WithOrders(params, o))
       /\ o \in { q.daily_orders : q \in OpsChoices }

----------------------------------------------------------------------------
(* C14 *)

----------------------------------------------------------------------------
(* C15 *)

\* the product is longer or wider than the envelope in both orientations
ExceedsEnvelope(spec, p) ==
  /\ (p.product_length > spec.maxL \/ p.product_width > spec.maxW)
  /\ (p.product_length > spec.maxW \/ p.product_width > spec.maxL)

ExceedsEveryEnvelope ==
  \A i \in 1..Len(PRODUCT_SPECS) : ExceedsEnvelope(PRODUCT_SPECS[i].spec, params)

\* C15: when the product exceeds every model's envelope in both
\* orientations the call returns the no-match value: no model is ever
\* selected, the alternatives loop is not entered and no alternative is
\* listed.
C15_OversizeNoMatch ==
  ExceedsEveryEnvelope =>
    /\ selected_model = NoModel
    /\ pc # "alt"
    /\ alternatives = <<>>
    /\ Finished => (result.kind = "none" /\ result.alternatives = <<>>)

\* the whole of a non-empty catalog was gone through for such a product and
\* None was returned
C15_Witness ==
  /\ PRODUCT_SPECS # <<>>
  /\ ExceedsEveryEnvelope
  /\ Finished
  /\ result.kind = "none"
  /\ Len(debug_info) = Len(PRODUCT_SPECS) + 1
  /\ \A i \in 1..Len(PRODUCT_SPECS) : debug_info[i].tag = "SKIP_SIZE"

----------------------------------------------------------------------------
(* C16 *)

\* working hours, daily orders or pieces per order not positive
InvalidInput ==
  \/ params.working_hours <= 0
  \/ params.daily_orders <= 0
  \/ params.ppo10 <= 0

\* C16: a call whose working hours or piece counts are not positive ends
\* with an invalid-input error, which is neither the no-match value nor a
\* result nor an arithmetic error from the middle of the computation.
C16_InvalidInputFailsFast ==
  (InvalidInput /\ Finished) => result.kind = "InvalidInput"

----------------------------------------------------------------------------
(* C17 *)

\* C17: when both unit counts of a model that passed the unit cutoff are 0,
\* the model is sized with one unit and no division by zero ends the call.
C17_ZeroUnitsTreatedAsOne ==
  ( /\ debug_info # <<>>
    /\ debug_info[Len(debug_info)].tag = "PASS"
    /\ loc.units_by_capacity = 0
    /\ loc.units_by_ports = 0 ) =>
      /\ loc.recommended_units = 1
      /\ result.kind # "ZeroDivisionError"

----------------------------------------------------------------------------
(* C18 *)

\* C18: a call with the arguments of the previous call of the session, the
\* catalog, the matrix and the settings being the same, returns what the
\* previous call returned, although it starts from the session state that
\* call (and any call before it) left behind.
C18_Determinism ==
  (pc = "done" /\ calculation_attempted /\ params = last_params) =>
    result = last_result

\* the second of two calls with the same arguments has returned a result
\* with alternatives, the session holding the first call's debug lines and
\* result since before it started
C18_Witness ==
  /\ pc = "done"
  /\ calls >= 2
  /\ calculation_attempted
  /\ params = last_params
  /\ result.kind = "result"
  /\ result.alternatives # <<>>
  /\ result = last_result
  /\ session_debug_info # <<>>

----------------------------------------------------------------------------
(* C19 *)

\* C19: no step of the call changes the catalog, the compatibility matrix
\* or anything kept in the session, whether the call ends with a result or
\* with the no-match value.
C19_CallLeavesStateUnchanged ==
  [][ UNCHANGED <<PRODUCT_SPECS, CONTAINER_MODEL_MATRIX, session_debug_info,
                  last_result, last_params, calculation_attempted>> ]_vars

----------------------------------------------------------------------------
(* C20 *)

\* C20: the reported utilization is required pieces per hour over nominal
\* capacity times final unit count, times 100, with the selected model's
\* nominal (not derated) capacity; for 1000 orders of 2.0 pieces, 8 hours,
\* peak 1.0, a product of 300x200x150 mm and 1.5 kg and the standard tote
\* the result has 2000 daily pieces and 250 required pieces per hour, the
\* selected model's envelope covers the product, its unit count is 1 and
\* its utilization is 250 / nominal capacity * 100.
C20_Utilization ==
  Returned =>
    LET rp   == Normalize(result.required_capacity_per_hour)
        cap  == result.selected_model.spec.processingCapacity
        util == Normalize(result.capacity_utilization)
    IN /\ util = Normalize(Ratio(rp.num * 100, rp.den * cap * result.recommended_units))
       /\ result.actual_capacity = cap
       /\ ( /\ params.daily_orders = 1000 /\ params.ppo10 = 20
             /\ params.working_hours = 8 /\ params.peak10 = 10
             /\ params.product_length = 300 /\ params.product_width = 200
             /\ params.product_height = 150 /\ params.weight10 = 15
             /\ params.container_type = "tote" ) =>
            /\ result.daily_pieces10 = 2000 * 10
            /\ rp = Ratio(250, 1)
            /\ FitsEnvelope(result.selected_model.spec, params)
            /\ result.recommended_units = 1
            /\ util.num * cap = 250 * 100 * util.den

\* the stated scenario has returned a result
C20_Witness ==
  /\ Returned
  /\ params = FormDefaults
  /\ result.daily_pieces10 = 20000
  /\ result.recommended_units = 1
  /\ result.selected_model.name # "none"

----------------------------------------------------------------------------
(* C21 *)

\* the scored model's score without its tier, container and cost parts,
\* in tenths: what the utilization added
UtilizationPart10 ==
    loc.score
  - 10 * ModelPriority(loc.model_name, params)
  - (IF loc.container_config.recommended THEN 10 * ContainerRecommendedBonus ELSE 0)
  + 10 * (loc.recommended_units - 1) * UnitsPenalty
  + (loc.num_intervals - PortsBaseline) * PortsPenalty10

\* C21: the utilization part of a candidate's score is the optimal bonus
\* for optimal_min <= utilization <= optimal_max, the high bonus for
\* optimal_max < utilization <= high_max, the overload penalty for
\* utilization > 100 and zero below optimal_min and above high_max up to
\* 100; the four cases exclude one another.
C21_UtilizationPart ==
  JustScored =>
    LET u == loc.capacity_utilization IN
      /\ (OptimalMin * u.den <= u.num /\ u.num <= OptimalMax * u.den)
           => UtilizationPart10 = 10 * OptimalBonus
      /\ (OptimalMax * u.den < u.num /\ u.num <= HighMax * u.den)
           => UtilizationPart10 = 10 * HighBonus
      /\ (u.num > 100 * u.den)
           => UtilizationPart10 = 10 * OverloadPenalty
      /\ (u.num < OptimalMin * u.den \/ (HighMax * u.den < u.num /\ u.num <= 100 * u.den))
           => UtilizationPart10 = 0

\* a model was scored at more than 100 % utilization (target utilization
\* above 1.0) and the penalty was applied
C21_Witness ==
  /\ JustScored
  /\ loc.capacity_utilization.num > 100 * loc.capacity_utilization.den
  /\ UtilizationPart10 = 10 * OverloadPenalty
  /\ OverloadPenalty < 0

----------------------------------------------------------------------------
(* C22 *)

\* the scored model's score without its container, utilization and cost
\* parts, in tenths: the tier's base score
TierPart10 ==
    loc.score
  - (IF loc.container_config.recommended THEN 10 * ContainerRecommendedBonus ELSE 0)
  - 10 * UtilizationScore(loc.capacity_utilization)
  + 10 * (loc.recommended_units - 1) * UnitsPenalty
  + (loc.num_intervals - PortsBaseline) * PortsPenalty10

\* C22: the base score of a mini model is mini_small when the daily pieces
\* are at most the threshold (the threshold included) and mini_large above
\* it; the base score of S, M and L is the tier's fixed weight, and with the
\* default weights S is above M and M above L.
C22_TierPart ==
  /\ JustScored =>
       /\ (IsMini(loc.model_name) /\ params.daily_orders * params.ppo10 <= MiniThresholdPcs * 10)
            => TierPart10 = 10 * PriorityMiniSmall
       /\ (IsMini(loc.model_name) /\ params.daily_orders * params.ppo10 > MiniThresholdPcs * 10)
            => TierPart10 = 10 * PriorityMiniLarge
       /\ (loc.model_name = "S") => TierPart10 = 10 * PriorityS
       /\ (loc.model_name = "M") => TierPart10 = 10 * PriorityM
       /\ (loc.model_name = "L") => TierPart10 = 10 * PriorityL
  /\ PriorityS > PriorityM
  /\ PriorityM > PriorityL

\* a mini model was scored for exactly as many daily pieces as the threshold
C22_Witness ==
  /\ JustScored
  /\ IsMini(loc.model_name)
  /\ params.daily_orders * params.ppo10 = MiniThresholdPcs * 10
  /\ TierPart10 = 10 * PriorityMiniSmall

----------------------------------------------------------------------------
(* C23 *)

\* the scored model's score without its tier and utilization parts, in
\* tenths
ContainerAndCostPart10 ==
    loc.score
  - 10 * ModelPriority(loc.model_name, params)
  - 10 * UtilizationScore(loc.capacity_utilization)

\* the scored model's intervals per unit after the block clamp
ClampedIntervals ==
  IF IsMini(loc.model_name)
    THEN LastSpec.totalPorts
    ELSE loc.num_blocks * loc.container_config.ports_per_block

\* C23: every candidate's score loses (unit count - 1) * units_penalty and
\* (intervals - ports_baseline) * ports_penalty, the intervals being those
\* per unit after the block clamp, so that fewer intervals than the baseline
\* add to the score; the container bonus is added exactly when the
\* container config is marked recommended.
C23_CostAndContainerPart ==
  JustScored =>
    /\ loc.num_intervals = ClampedIntervals
    /\ ContainerAndCostPart10 =
            (IF loc.container_config.recommended THEN 10 * ContainerRecommendedBonus ELSE 0)
          - 10 * (loc.recommended_units - 1) * UnitsPenalty
          - (ClampedIntervals - PortsBaseline) * PortsPenalty10
    /\ (ClampedIntervals < PortsBaseline /\ loc.recommended_units = 1)
         => ContainerAndCostPart10 > 0

\* a model with one unit and fewer intervals than the baseline was scored:
\* it gained from the ports term, on top of its container bonus
C23_Witness ==
  /\ JustScored
  /\ ClampedIntervals < PortsBaseline
  /\ loc.recommended_units = 1
  /\ loc.container_config.recommended
  /\ ContainerAndCostPart10 =
       10 * ContainerRecommendedBonus + (PortsBaseline - ClampedIntervals) * PortsPenalty10

----------------------------------------------------------------------------
(* C24 *)

\* the configured target rotation, raised to 1 when it is below
ClampedRotation ==
  IF APP_SETTINGS.target_rotation < 1 THEN 1 ELSE APP_SETTINGS.target_rotation

\* C24: whatever target rotation is configured (0 and negative values
\* included) the rotation used is that value raised to at least 1, the
\* minimum port count of a sized model is the ceiling of required orders
\* per hour over it, a well-defined division, and a result reports it as
\* its effective rotation.
C24_RotationClamp ==
  /\ ClampedRotation >= 1
  /\ JustSized =>
       IsCeil(loc.min_ports_needed,
              required_orders_per_hour(params).num,
              required_orders_per_hour(params).den * ClampedRotation)
  /\ Returned =>
       /\ result.effective_rotation = ClampedRotation
       /\ IsCeil(result.min_ports_needed,
                 result.required_orders_per_hour.num,
                 result.required_orders_per_hour.den * ClampedRotation)

\* a result was returned under a configured target rotation of 0 or less
C24_Witness ==
  /\ Returned
  /\ APP_SETTINGS.target_rotation <= 0
  /\ result.effective_rotation = 1
  /\ result.min_ports_needed * result.required_orders_per_hour.den
       >= result.required_orders_per_hour.num

----------------------------------------------------------------------------
(* C26 *)

----------------------------------------------------------------------------
(* C25 *)

\* loading the file from the configuration does not succeed
SpecsLoadFails ==
  \/ ~env.loader_available
  \/ env.specs_file # "ok"

MatrixLoadFails ==
  \/ ~env.loader_available
  \/ env.matrix_file # "ok"
  \/ env.specs_file # "ok"

\* C25: neither getter ends with an exception, and when loading from the
\* configuration files fails (loader unavailable, file missing, parse
\* error, validation error) the getter returns the built-in default.
C25_GettersFallBack ==
  /\ got_specs.kind # "raised"
  /\ got_matrix.kind # "raised"
  /\ (got_specs.kind # "not_called" /\ SpecsLoadFails) => got_specs = GotDefault
  /\ (got_matrix.kind # "not_called" /\ MatrixLoadFails) => got_matrix = GotDefault

----------------------------------------------------------------------------
(* C27 *)

\* the configuration computed for the model at position i of the catalog
UnitsAt(i) == recommended_units(PRODUCT_SPECS[i].spec, params)

BlocksAt(i) ==
  LET spec == PRODUCT_SPECS[i].spec
      cfg  == get_container_model_config(Names[i], params.container_type,
                                         CONTAINER_MODEL_MATRIX)
  IN num_blocks(Names[i], spec, cfg, ports_per_unit(spec, params, UnitsAt(i)))

IntervalsAt(i) ==
  LET spec == PRODUCT_SPECS[i].spec
      cfg  == get_container_model_config(Names[i], params.container_type,
                                         CONTAINER_MODEL_MATRIX)
  IN num_intervals(Names[i], spec, cfg, BlocksAt(i))

\* C27: the configuration fields of a result are the values computed for
\* the selected model, wherever it stands in the catalog and whichever
\* model the selection loop and the alternatives loop processed last.
C27_FieldsOfSelectedModel ==
  Returned =>
    LET w    == PosOf(result.selected_model.name)
        spec == PRODUCT_SPECS[w].spec
    IN /\ result.selected_model.spec = spec
       /\ result.num_intervals = IntervalsAt(w)
       /\ result.num_blocks = BlocksAt(w)
       /\ result.recommended_units = UnitsAt(w)
       /\ result.capacity_utilization = capacity_utilization(spec, params, UnitsAt(w))
       /\ result.actual_rotation = actual_rotation(params, IntervalsAt(w), UnitsAt(w))
       /\ result.min_ports_needed = min_ports_needed(params)
       /\ result.actual_capacity = spec.processingCapacity
       /\ result.installation_length = spec.dimL * 100
       /\ result.installation_width = spec.dimW * 100
       /\ result.installation_height = spec.dimH * 100

\* the selected model is not the last of the catalog, and the last one was
\* scored too, with another interval count, unit count and capacity
C27_Witness ==
  /\ Returned
  /\ Len(PRODUCT_SPECS) >= 2
  /\ LET n == Len(PRODUCT_SPECS)
         w == PosOf(result.selected_model.name)
     IN /\ w < n
        /\ Eligible(n)
        /\ IntervalsAt(n) # result.num_intervals
        /\ UnitsAt(n) # result.recommended_units
        /\ PRODUCT_SPECS[n].spec.processingCapacity # result.actual_capacity

----------------------------------------------------------------------------
(* C28 *)

\* C28: the selected model's intervals per unit do not exceed the model's
\* total port count, after the block count was rounded up and clamped.
C28_IntervalsWithinCap ==
  Returned => result.num_intervals <= result.selected_model.spec.totalPorts

----------------------------------------------------------------------------
(* C29 *)

\* C29: an import that returns (False, message) leaves the session's
\* matrix as it was; the matrix changes only in an import that returns
\* (True, message).
C29_FailedImportKeepsMatrix ==
  [][ /\ (imports' = imports + 1 /\ ~import_result'.ok)
            => session_matrix' = session_matrix
      /\ session_matrix' # session_matrix
            => (imports' = imports + 1 /\ import_result'.ok) ]_vars

----------------------------------------------------------------------------
(* C30 *)

\* what the session holds as outcome of the last calculation
StoredResult == IF calculation_attempted THEN last_result ELSE NoMatch

\* C30: in every step of a session the stored result, the stored params
\* and the attempted flag change only together, when a call has returned,
\* to the call's outcome and the params it ran on, which did not change
\* while it ran; every returned call is stored, a no-match as well, and is
\* then shown as guidance; the flag never goes back to false; results or
\* guidance are on the page only with the flag set and show the stored
\* pair; the contact form is given the stored pair.
C30_SessionPair ==
  [][ /\ (last_result' # last_result \/ last_params' # last_params
            \/ calculation_attempted' # calculation_attempted)
           => /\ pc = "done"
              /\ last_result' = result
              /\ last_params' = params
              /\ calculation_attempted'
      /\ pc # "idle" => params' = params
      /\ (pc = "done" /\ pc' = "idle")
           => /\ last_result' = result
              /\ last_params' = params
              /\ calculation_attempted'
              /\ result.kind = "none" =>
                   rendered' = [kind |-> "guidance", result |-> NoMatch, params |-> params]
              /\ result.kind = "result" =>
                   rendered' = [kind |-> "results", result |-> result, params |-> params]
      /\ calculation_attempted => calculation_attempted'
      /\ rendered'.kind # "nothing"
           => /\ calculation_attempted'
              /\ rendered'.params = last_params'
              /\ rendered'.kind = "results" => rendered'.result = last_result'
              /\ rendered'.kind = "guidance" => last_result' = NoMatch
      /\ inquiry'.params = last_params'
      /\ inquiry'.result = StoredResult'
    ]_vars

\* after a call that returned a result, a later call found no model: the
\* no-match and its params are stored, guidance is shown and the contact
\* form has the pair, while the form already shows other values
C30_Witness ==
  /\ pc = "idle"
  /\ calls >= 2
  /\ calculation_attempted
  /\ last_result = NoMatch
  /\ last_params # NoParams
  /\ params # last_params
  /\ rendered = [kind |-> "guidance", result |-> NoMatch, params |-> last_params]
  /\ inquiry = [params |-> last_params, result |-> NoMatch]
  /\ session_debug_info # <<>>

====
